---------------------------- MODULE Spec2Model ----------------------------
(***************************************************************************)
(* Model of java_scope_finder.py: the command line pipeline of main() and  *)
(* the recursive search find_scope / find_smallest_enclosing_scope for the *)
(* narrowest syntax node whose line span holds a given line number.        *)
(*                                                                         *)
(* Two specifications share the traversal actions:                         *)
(*   Spec         one run of main(), from argument parsing to process exit *)
(*   SpecResolve  find_scope called again and again on one tree, with any  *)
(*                line number, as a library user would call it             *)
(***************************************************************************)
EXTENDS Integers, Sequences, FiniteSets

(***************************************************************************)
(* Bounds of the model.                                                    *)
(***************************************************************************)
\* largest number of nodes of a syntax tree
MaxNodes == 3
\* largest 0-based row a node's start_point / end_point may name
MaxRow == 1

(***************************************************************************)
(* Python's None, and values that may be None: None is <<>>, a value v is  *)
(* <<v>>, so that "x is None" can be asked of a string or of an integer.   *)
(***************************************************************************)
None == <<>>
Some(v) == <<v>>
Val(o) == o[1]

(***************************************************************************)
(* Syntax trees as tree-sitter hands them over. Nodes are 1..t.n, node 1   *)
(* is tree.root_node, parent[i] < i, node.children is the children in      *)
(* increasing order. span[i] = <<start_point[0], end_point[0]>>, 0-based   *)
(* rows with start <= end. Every node carries its own grammar label, so a  *)
(* scope descriptor tells which node it was copied from.                   *)
(***************************************************************************)
TypeNames == << "program", "class_declaration", "method_declaration", "block",
                "if_statement", "expression_statement", "local_variable_declaration" >>

NodeType(n) == TypeNames[n]

Rows == 0..MaxRow

Spans == { s \in Rows \X Rows : s[1] <= s[2] }

ParentVecs(n) == { p \in [1..n -> 0..(n - 1)] :
                     /\ p[1] = 0
                     /\ \A i \in 2..n : p[i] \in 1..(i - 1) }

Trees == UNION { { [n |-> n, parent |-> p, span |-> s] :
                     p \in ParentVecs(n), s \in [1..n -> Spans] } : n \in 1..MaxNodes }

Nodes(t) == 1..t.n

Root == 1

\* node.children, in parse order
Children(t, n) == SelectSeq([i \in 1..t.n |-> i], LAMBDA c : t.parent[c] = n)

\* the nesting the grammar guarantees: a child's rows lie within its parent's
WellFormed(t) == \A c \in 2..t.n :
                    /\ t.span[t.parent[c]][1] <= t.span[c][1]
                    /\ t.span[c][2] <= t.span[t.parent[c]][2]

WellFormedTrees == { t \in Trees : WellFormed(t) }

\* the tree variable's value before the parser has produced a tree
NoTree == [n |-> 0, parent |-> << >>, span |-> << >>]


(***************************************************************************)
(* State.                                                                  *)
(***************************************************************************)
VARIABLES
  pc,              \* where the run stands: the statement of main() (or of the caller) to execute next
  line_number,     \* args.line_number / the line_number argument of find_scope
  total_lines,     \* len(lines) of the file read, None before read_file
  tree,            \* the parsed syntax tree, NoTree before parse_code
  smallest_scope,  \* the accumulator of find_scope and of the innermost active call
  stack,           \* the active calls of find_smallest_enclosing_scope, innermost last
  visited,         \* the nodes examined by the running search, in the order examined
  steps,           \* statements of the running search executed so far
  scope,           \* the value find_scope returned, None before it has
  output,          \* what the run has printed
  exit_code,       \* the process exit status, None while running
  calls,           \* the functions of the module main() has entered
  env,             \* what the run met: how argv, the file and the parser behaved
  prev             \* SpecResolve: the first call's line and result, and whether
                   \* a call for another line has returned since

vars == << pc, line_number, total_lines, tree, smallest_scope, stack, visited,
           steps, scope, output, exit_code, calls, env, prev >>

mainVars == << total_lines, output, exit_code, calls, env >>

(***************************************************************************)
(* node_contains_line and the scope descriptor.                            *)
(***************************************************************************)
\* node_contains_line comparing the 0-based rows with the 1-based line itself
node_contains_line_no_shift(t, n, line) ==
  /\ t.span[n][1] <= line
  /\ line <= t.span[n][2]

\* node_contains_line taking the end row as exclusive
node_contains_line_open_end(t, n, line) ==
  /\ t.span[n][1] <= line - 1
  /\ line - 1 < t.span[n][2]

node_contains_line(t, n, line) ==
  /\ t.span[n][1] <= line - 1
  /\ line - 1 <= t.span[n][2]

\* current_scope taking end_line from the start row
current_scope_start_twice(t, n) ==
  [ type       |-> Some(NodeType(n)),
    start_line |-> Some(t.span[n][1] + 1),
    end_line   |-> Some(t.span[n][1] + 1) ]

\* the dict built at lines 90-94
current_scope(t, n) ==
  [ type       |-> Some(NodeType(n)),
    start_line |-> Some(t.span[n][1] + 1),
    end_line   |-> Some(t.span[n][2] + 1) ]

\* a scope dict whose three entries are None: "no match"
NoScope == [ type |-> None, start_line |-> None, end_line |-> None ]

\* find_scope going on with the dict the call before left behind
StaleScope == smallest_scope

\* the dict find_scope builds at lines 118-122, new at every call
InitialScope == NoScope

\* the update with <= for <: a later node of equal width replaces the best
ShouldUpdateOnTie(cur, best) ==
  \/ best.start_line = None
  \/ Val(cur.end_line) - Val(cur.start_line) <= Val(best.end_line) - Val(best.start_line)

\* the update with > for <: the widest node wins
ShouldUpdateWider(cur, best) ==
  \/ best.start_line = None
  \/ Val(cur.end_line) - Val(cur.start_line) > Val(best.end_line) - Val(best.start_line)

\* the condition of the if at lines 95-97
ShouldUpdate(cur, best) ==
  \/ best.start_line = None
  \/ Val(cur.end_line) - Val(cur.start_line) < Val(best.end_line) - Val(best.start_line)

(***************************************************************************)
(* find_smallest_enclosing_scope, one statement at a time. A frame is one  *)
(* active call: its node and i, the number of children already handed to   *)
(* a recursive call (i = -1: the call has not yet run its test). Each call *)
(* gets the caller's smallest_scope and the caller assigns what it returns *)
(* to its own smallest_scope at once, so one variable holds the dict of    *)
(* the innermost call.                                                     *)
(***************************************************************************)
Top == stack[Len(stack)]

Pop == SubSeq(stack, 1, Len(stack) - 1)

Frame(n) == [node |-> n, i |-> -1]

Searching == stack # << >>

\* the call going on to the children of a node that does not contain the line
VisitNodeNoPruning ==
  /\ Searching
  /\ Top.i = -1
  /\ visited' = Append(visited, Top.node)
  /\ steps' = steps + 1
  /\ smallest_scope' =
       IF /\ node_contains_line(tree, Top.node, Val(line_number))
          /\ ShouldUpdate(current_scope(tree, Top.node), smallest_scope)
         THEN current_scope(tree, Top.node)
         ELSE smallest_scope
  /\ stack' = [stack EXCEPT ![Len(stack)].i = 0]
  /\ UNCHANGED << pc, line_number, tree, scope, prev, mainVars >>

\* the call tests the node: lines 88-98, or line 104 when the test fails
VisitNode ==
  /\ Searching
  /\ Top.i = -1
  /\ visited' = Append(visited, Top.node)
  /\ steps' = steps + 1
  /\ IF node_contains_line(tree, Top.node, Val(line_number))
       THEN /\ smallest_scope' =
                 IF ShouldUpdate(current_scope(tree, Top.node), smallest_scope)
                   THEN current_scope(tree, Top.node)
                   ELSE smallest_scope
            /\ stack' = [stack EXCEPT ![Len(stack)].i = 0]
       ELSE /\ smallest_scope' = smallest_scope
            /\ stack' = Pop
  /\ UNCHANGED << pc, line_number, tree, scope, prev, mainVars >>

\* the for loop left after its first round
NextChildFirstOnly ==
  /\ Searching
  /\ Top.i >= 0
  /\ Top.i < Len(Children(tree, Top.node))
  /\ stack' = Append([stack EXCEPT ![Len(stack)].i = Len(Children(tree, Top.node))],
                     Frame(Children(tree, Top.node)[Top.i + 1]))
  /\ steps' = steps + 1
  /\ UNCHANGED << pc, line_number, tree, smallest_scope, visited, scope, prev, mainVars >>

\* the for loop takes the next child and calls itself on it: lines 101-102
NextChild ==
  /\ Searching
  /\ Top.i >= 0
  /\ Top.i < Len(Children(tree, Top.node))
  /\ stack' = Append([stack EXCEPT ![Len(stack)].i = Top.i + 1],
                     Frame(Children(tree, Top.node)[Top.i + 1]))
  /\ steps' = steps + 1
  /\ UNCHANGED << pc, line_number, tree, smallest_scope, visited, scope, prev, mainVars >>

\* the for loop is over, the call returns smallest_scope: line 104
ReturnFromNode ==
  /\ Searching
  /\ Top.i >= 0
  /\ Top.i = Len(Children(tree, Top.node))
  /\ stack' = Pop
  /\ steps' = steps + 1
  /\ UNCHANGED << pc, line_number, tree, smallest_scope, visited, scope, prev, mainVars >>

Traverse == VisitNode \/ NextChild \/ ReturnFromNode

(***************************************************************************)
(* find_scope: lines 117-123 start the search at the root with a fresh     *)
(* dict, line 124 returns what the search returned.                        *)
(***************************************************************************)
FindScopeBegin ==
  /\ smallest_scope' = InitialScope
  /\ stack' = << Frame(Root) >>
  /\ visited' = << >>
  /\ steps' = 0

FindScopeEnd ==
  /\ ~Searching
  /\ scope' = Some(smallest_scope)
  /\ UNCHANGED << smallest_scope, stack, visited, steps >>

(***************************************************************************)
(* SpecResolve: a caller holding one tree calls find_scope any number of   *)
(* times, each time with any line number.                                  *)
(***************************************************************************)
\* line numbers a caller may pass: 0, every line of the rows, and one past them
QueryLines == 0..(MaxRow + 2)

InitResolve ==
  /\ pc = "idle"
  /\ tree \in Trees
  /\ line_number = None
  /\ total_lines = None
  /\ smallest_scope = NoScope
  /\ stack = << >>
  /\ visited = << >>
  /\ steps = 0
  /\ scope = None
  /\ output = [msg |-> "nothing"]
  /\ exit_code = None
  /\ calls = {}
  /\ env = [argv |-> "unparsed", file |-> "unread", parser |-> "unused"]
  /\ prev = None

CallFindScope ==
  /\ pc = "idle"
  /\ \E l \in QueryLines : line_number' = Some(l)
  /\ FindScopeBegin
  /\ pc' = "in_find_scope"
  /\ scope' = None
  /\ UNCHANGED << tree, prev, mainVars >>

ReturnFindScope ==
  /\ pc = "in_find_scope"
  /\ FindScopeEnd
  /\ pc' = "idle"
  /\ prev' = IF prev = None
               THEN Some([line |-> line_number, scope |-> smallest_scope, between |-> FALSE])
               ELSE IF Val(prev).line # line_number
                      THEN Some([Val(prev) EXCEPT !.between = TRUE])
                      ELSE prev
  /\ UNCHANGED << line_number, tree, mainVars >>

NextResolve == CallFindScope \/ Traverse \/ ReturnFindScope

SpecResolve == InitResolve /\ [][NextResolve]_vars

(***************************************************************************)
(* Spec: one run of main().                                                *)
(***************************************************************************)
\* values the line_number argument may take once argparse has read it as an int
ArgLines == (-1)..(MaxRow + 3)

\* lengths of the list readlines() may return
LineCounts == 0..(MaxRow + 2)

\* validate_line_number with < 0 for <= 0
validate_line_number_zero_ok(line, total) ==
  IF line < 0 THEN FALSE
  ELSE IF line > total THEN FALSE
  ELSE TRUE

validate_line_number(line, total) ==
  IF line <= 0 THEN FALSE
  ELSE IF line > total THEN FALSE
  ELSE TRUE

\* what validate_line_number prints on the way: lines 157 and 160
ValidationMessage(line, total) ==
  IF line <= 0 THEN "line_not_positive" ELSE "line_exceeds_total"

\* sys.exit() without the status
ExitNoStatus(code, msg) ==
  /\ exit_code' = Some(0)
  /\ output' = [msg |-> msg]
  /\ pc' = "exited"

\* sys.exit(code), or the interpreter ending the process
Exit(code, msg) ==
  /\ exit_code' = Some(code)
  /\ output' = [msg |-> msg]
  /\ pc' = "exited"

searchVars == << smallest_scope, stack, visited, steps, scope >>

Init ==
  /\ pc = "parse_arguments"
  /\ tree = NoTree
  /\ line_number = None
  /\ total_lines = None
  /\ smallest_scope = NoScope
  /\ stack = << >>
  /\ visited = << >>
  /\ steps = 0
  /\ scope = None
  /\ output = [msg |-> "nothing"]
  /\ exit_code = None
  /\ calls = {}
  /\ env = [argv |-> "unparsed", file |-> "unread", parser |-> "unused"]
  /\ prev = None

\* parse_arguments: argparse returns the namespace, or prints the usage with an
\* error and exits with status 2 (an argument missing, a line_number that is
\* no int), or prints the help and exits with status 0 (-h)
ParseArguments ==
  /\ pc = "parse_arguments"
  /\ calls' = calls \cup {"parse_arguments"}
  /\ \/ /\ \E l \in ArgLines : line_number' = Some(l)
        /\ env' = [env EXCEPT !.argv = "ok"]
        /\ pc' = "read_file"
        /\ UNCHANGED << output, exit_code >>
     \/ /\ env' = [env EXCEPT !.argv = "usage_error"]
        /\ Exit(2, "usage_error")
        /\ UNCHANGED line_number
     \/ /\ env' = [env EXCEPT !.argv = "help"]
        /\ Exit(0, "help")
        /\ UNCHANGED line_number
  /\ UNCHANGED << total_lines, tree, searchVars, prev >>

\* read_file: both opens succeed, or open raises FileNotFoundError, or another
\* IOError, or the text is no UTF-8 and readlines raises UnicodeDecodeError,
\* which nothing catches: the interpreter prints the traceback and exits with 1
ReadFile ==
  /\ pc = "read_file"
  /\ calls' = calls \cup {"read_file"}
  /\ \/ /\ \E n \in LineCounts : total_lines' = Some(n)
        /\ env' = [env EXCEPT !.file = "ok"]
        /\ pc' = "validate_line_number"
        /\ UNCHANGED << output, exit_code >>
     \/ /\ env' = [env EXCEPT !.file = "FileNotFoundError"]
        /\ Exit(1, "file_does_not_exist")
        /\ UNCHANGED total_lines
     \/ /\ env' = [env EXCEPT !.file = "IOError"]
        /\ Exit(1, "cannot_read_file")
        /\ UNCHANGED total_lines
     \/ /\ env' = [env EXCEPT !.file = "UnicodeDecodeError"]
        /\ Exit(1, "traceback")
        /\ UNCHANGED total_lines
  /\ UNCHANGED << line_number, tree, searchVars, prev >>

\* lines 190-191
ValidateLineNumber ==
  /\ pc = "validate_line_number"
  /\ calls' = calls \cup {"validate_line_number"}
  /\ IF validate_line_number(Val(line_number), Val(total_lines))
       THEN /\ pc' = "get_parser"
            /\ UNCHANGED << output, exit_code >>
       ELSE Exit(1, ValidationMessage(Val(line_number), Val(total_lines)))
  /\ UNCHANGED << line_number, total_lines, tree, searchVars, env, prev >>

\* lines 193-194: the grammar and the parser are loaded, or loading raises (a
\* tree_sitter that does not fit tree_sitter_languages), which nothing catches:
\* the interpreter prints the traceback and exits with 1
GetParser ==
  /\ pc = "get_parser"
  /\ calls' = calls \cup {"get_language", "get_parser"}
  /\ \/ /\ pc' = "parse_code"
        /\ UNCHANGED << output, exit_code, env >>
     \/ /\ env' = [env EXCEPT !.parser = "load_error"]
        /\ Exit(1, "traceback")
  /\ UNCHANGED << line_number, total_lines, tree, searchVars, prev >>

\* trees the parser can return for a file of that many lines: the rows nest, and
\* no row lies beyond the end of the text (row total is the end of a text whose
\* last line ends with a line break)
ParsedTrees(total) == { t \in WellFormedTrees : \A n \in Nodes(t) : t.span[n][2] <= total }

\* parse_code: parser.parse returns a tree, or raises and parse_code exits with 1
ParseCode ==
  /\ pc = "parse_code"
  /\ calls' = calls \cup {"parse_code"}
  /\ \/ /\ tree' \in ParsedTrees(Val(total_lines))
        /\ env' = [env EXCEPT !.parser = "ok"]
        /\ pc' = "find_scope"
        /\ UNCHANGED << output, exit_code >>
     \/ /\ env' = [env EXCEPT !.parser = "raises"]
        /\ Exit(1, "error_parsing_code")
        /\ UNCHANGED tree
  /\ UNCHANGED << line_number, total_lines, searchVars, prev >>

\* line 200, entering find_scope
MainCallFindScope ==
  /\ pc = "find_scope"
  /\ calls' = calls \cup {"find_scope"}
  /\ FindScopeBegin
  /\ pc' = "searching"
  /\ UNCHANGED << line_number, total_lines, tree, scope, output, exit_code, env, prev >>

\* line 200, find_scope returns
MainReturnFindScope ==
  /\ pc = "searching"
  /\ FindScopeEnd
  /\ pc' = "display_result"
  /\ UNCHANGED << line_number, tree, prev, mainVars >>

\* lines[start_line - 1 : end_line] as the first and last line printed; a slice
\* stops at the end of the list
Snippet(sc, total) ==
  << Val(sc.start_line), IF Val(sc.end_line) < total THEN Val(sc.end_line) ELSE total >>

\* display_result, and main() returning after it: the process exits with 0
DisplayResult ==
  /\ pc = "display_result"
  /\ calls' = calls \cup {"display_result"}
  /\ output' = IF Val(scope).type = None
                 THEN [msg |-> "no_relevant_scope"]
                 ELSE [msg |-> "scope", type |-> Val(Val(scope).type),
                       start_line |-> Val(Val(scope).start_line),
                       end_line |-> Val(Val(scope).end_line),
                       snippet |-> Snippet(Val(scope), Val(total_lines))]
  /\ exit_code' = Some(0)
  /\ pc' = "exited"
  /\ UNCHANGED << line_number, total_lines, tree, searchVars, env, prev >>

Next ==
  \/ ParseArguments
  \/ ReadFile
  \/ ValidateLineNumber
  \/ GetParser
  \/ ParseCode
  \/ MainCallFindScope
  \/ Traverse
  \/ MainReturnFindScope
  \/ DisplayResult

Spec == Init /\ [][Next]_vars

(***************************************************************************)
(* Vocabulary of the properties: 1-based line spans, widths, the order of  *)
(* a depth-first pre-order walk. None of it is used by the actions above.  *)
(***************************************************************************)
StartLine(t, n) == t.span[n][1] + 1

EndLine(t, n) == t.span[n][2] + 1

NodeWidth(t, n) == EndLine(t, n) - StartLine(t, n)

Encloses(t, n, line) == StartLine(t, n) <= line /\ line <= EndLine(t, n)

DescriptorOf(t, n) ==
  [ type |-> Some(NodeType(n)), start_line |-> Some(StartLine(t, n)),
    end_line |-> Some(EndLine(t, n)) ]

ScopeWidth(sc) == Val(sc.end_line) - Val(sc.start_line)

RECURSIVE PreOrderFrom(_, _), PreOrderOfAll(_, _)
PreOrderFrom(t, n) == << n >> \o PreOrderOfAll(t, Children(t, n))

PreOrderOfAll(t, cs) ==
  IF cs = << >> THEN << >>
  ELSE PreOrderFrom(t, Head(cs)) \o PreOrderOfAll(t, Tail(cs))

PreOrder(t) == PreOrderFrom(t, Root)

\* every proper ancestor of n encloses the line
RECURSIVE AncestorsEnclose(_, _, _)
AncestorsEnclose(t, n, line) ==
  \/ t.parent[n] = 0
  \/ /\ Encloses(t, t.parent[n], line)
     /\ AncestorsEnclose(t, t.parent[n], line)

\* the nodes a walk that stops below a node not enclosing the line comes to
Examined(t, line) == SelectSeq(PreOrder(t), LAMBDA n : AncestorsEnclose(t, n, line))

\* those of them that enclose the line
Candidates(t, line) == SelectSeq(Examined(t, line), LAMBDA n : Encloses(t, n, line))

\* the first node of a non-empty sequence that no node of it is narrower than
FirstNarrowest(t, seq) ==
  LET narrowest(i) == \A j \in 1..Len(seq) : NodeWidth(t, seq[j]) >= NodeWidth(t, seq[i])
  IN  seq[CHOOSE i \in 1..Len(seq) : narrowest(i) /\ \A j \in 1..(i - 1) : ~narrowest(j)]

IsPrefix(a, b) == Len(a) <= Len(b) /\ a = SubSeq(b, 1, Len(a))

\* find_scope has returned and nothing has been called since
Returned == scope # None

Result == Val(scope)

Line == Val(line_number)

Matched == Returned /\ Result.type # None

(***************************************************************************)
(* Properties of find_scope, checked under SpecResolve.                    *)
(***************************************************************************)

\* C1 Minimality: on a well-formed tree and for a line >= 1, when find_scope
\* returns a match, no node of the tree that encloses the line is strictly
\* narrower than the match.
Minimality ==
  (Matched /\ WellFormed(tree) /\ Line >= 1) =>
    \A n \in Nodes(tree) :
      Encloses(tree, n, Line) => ~(NodeWidth(tree, n) < ScopeWidth(Result))

\* C1's case: the match is a node below the root and strictly narrower than it
MinimalityWitness ==
  /\ Matched /\ WellFormed(tree) /\ Line >= 1
  /\ Result.type # Some(NodeType(Root))
  /\ ScopeWidth(Result) < NodeWidth(tree, Root)

\* C2 Containment: on every tree, a returned match encloses the line:
\* start_line <= line <= end_line.
Containment ==
  Matched => (Val(Result.start_line) <= Line /\ Line <= Val(Result.end_line))

\* C2's case: a match on a tree where some node was examined and found not to
\* enclose the line
ContainmentWitness ==
  /\ Matched
  /\ \E i \in 1..Len(visited) : ~Encloses(tree, visited[i], Line)

\* the best so far is kept when the node examined is as wide as it
KeepsOnTie ==
  (/\ Searching
   /\ Top.i = -1
   /\ smallest_scope # NoScope
   /\ Encloses(tree, Top.node, Line)
   /\ NodeWidth(tree, Top.node) = ScopeWidth(smallest_scope))
    => smallest_scope' = smallest_scope

\* C3 Tie-break: of the enclosing nodes the walk comes to, find_scope returns
\* the first in depth-first pre-order that none is narrower than, so among
\* nodes of equal least width the one visited first; and a node as wide as the
\* best so far never replaces it.
TieBreak ==
  /\ [](Returned => (Candidates(tree, Line) # << >> =>
           Result = DescriptorOf(tree, FirstNarrowest(tree, Candidates(tree, Line)))))
  /\ [][KeepsOnTie]_vars

\* C3's case: two enclosing nodes of the least width, the match is the earlier
TieBreakWitness ==
  /\ Matched
  /\ \E i, j \in 1..Len(Candidates(tree, Line)) :
       /\ i < j
       /\ Result = DescriptorOf(tree, Candidates(tree, Line)[i])
       /\ NodeWidth(tree, Candidates(tree, Line)[j]) = ScopeWidth(Result)

\* C4 No-match: find_scope returns no match exactly when the root does not
\* enclose the line, and no match is the dict whose three entries are None.
NoMatchBoundary ==
  Returned =>
    /\ (Result.type = None) <=> ~Encloses(tree, Root, Line)
    /\ (Result.type = None) => Result = NoScope
    /\ (Result.type # None) => (Result.start_line # None /\ Result.end_line # None)

\* C4's case: a line >= 1 beyond the root's last line, and no match returned
NoMatchWitness ==
  /\ Returned
  /\ Line > EndLine(tree, Root)
  /\ Result = NoScope

\* the search that goes through every node of the tree in pre-order, with the
\* containment test and the update of the pruned search
RECURSIVE ExhaustiveFold(_, _, _, _)
ExhaustiveFold(t, line, seq, best) ==
  IF seq = << >> THEN best
  ELSE ExhaustiveFold(t, line, Tail(seq),
         IF /\ node_contains_line(t, Head(seq), line)
            /\ ShouldUpdate(current_scope(t, Head(seq)), best)
           THEN current_scope(t, Head(seq))
           ELSE best)

ExhaustiveSearch(t, line) == ExhaustiveFold(t, line, PreOrder(t), NoScope)

\* C5 Pruning equivalence: on a well-formed tree the pruned search returns what
\* the exhaustive pre-order search returns.
PruningEquivalence ==
  (Returned /\ WellFormed(tree)) => Result = ExhaustiveSearch(tree, Line)

\* C5's case: a well-formed tree, a match, and a node the pruned search left out
PruningWitness ==
  /\ Matched /\ WellFormed(tree)
  /\ Len(visited) < tree.n
  /\ Result = ExhaustiveSearch(tree, Line)

\* C8 Idempotence and purity: a call of find_scope for the line of the first
\* call returns what the first call returned, whatever was called in between,
\* and no step of a call changes the tree.
Idempotence ==
  /\ []((pc = "idle" /\ Returned /\ prev # None /\ Val(prev).line = line_number)
          => Result = Val(prev).scope)
  /\ [][tree' = tree]_vars

\* C8's case: a later call for the first call's line has returned a match, after
\* a call for another line
IdempotenceWitness ==
  /\ pc = "idle" /\ Matched
  /\ prev # None
  /\ Val(prev).between
  /\ Val(prev).line = line_number
  /\ Result = Val(prev).scope

OneNode(sc) == sc = NoScope \/ \E n \in Nodes(tree) : sc = DescriptorOf(tree, n)

\* within a call, a match held stays a match and does not get wider
NeverWidens ==
  (pc = "in_find_scope" /\ smallest_scope # NoScope) =>
    /\ smallest_scope' # NoScope
    /\ ScopeWidth(smallest_scope') <= ScopeWidth(smallest_scope)

\* C10 Accumulator: at every point of the search and at return smallest_scope
\* is no match (three None) or the descriptor of one node of the tree (its type,
\* its start row + 1, its end row + 1); a match held never gets wider and never
\* goes back to no match.
Accumulator ==
  /\ [](OneNode(smallest_scope) /\ (Returned => OneNode(Result)))
  /\ [][NeverWidens]_vars

\* C10's case: in the middle of a search the accumulator holds a node below the
\* root that replaced a wider match
AccumulatorWitness ==
  /\ Searching
  /\ smallest_scope # NoScope
  /\ smallest_scope.type # Some(NodeType(Root))
  /\ ScopeWidth(smallest_scope) < NodeWidth(tree, Root)
  /\ Encloses(tree, Root, Line)

(***************************************************************************)
(* Properties of main(), checked under Spec.                               *)
(***************************************************************************)
\* the line number is not in 1..total_lines
OutOfRange == Val(line_number) <= 0 \/ Val(line_number) > Val(total_lines)

\* validate_line_number has been called and has returned
Validated == "validate_line_number" \in calls

AfterValidation == {"get_language", "get_parser", "parse_code", "find_scope", "display_result"}

\* C6 Pre-validation: validate_line_number rejects exactly the line numbers
\* <= 0 and those > total_lines; a rejected line number ends the run with exit
\* code 1 before the parser is loaded or run and before any traversal; an
\* accepted one lets the run go on to the parser.
PreValidation ==
  Validated =>
    IF OutOfRange
      THEN /\ pc = "exited"
           /\ exit_code = Some(1)
           /\ output.msg \in {"line_not_positive", "line_exceeds_total"}
           /\ output.msg = "line_not_positive" <=> Val(line_number) <= 0
           /\ calls \cap AfterValidation = {}
           /\ tree = NoTree /\ visited = << >> /\ scope = None
      ELSE /\ output.msg \notin {"line_not_positive", "line_exceeds_total"}
           /\ pc = "get_parser" \/ "get_parser" \in calls

\* C6's case: a positive line number beyond the end of a file that has lines
\* was rejected
PreValidationWitness ==
  /\ Validated
  /\ Val(total_lines) >= 1
  /\ Val(line_number) > Val(total_lines)
  /\ pc = "exited"
  /\ exit_code = Some(1)

\* the three failures the exit code 1 is claimed for
FileFailed == env.file \in {"FileNotFoundError", "IOError", "UnicodeDecodeError"}

ParserFailed == env.parser \in {"load_error", "raises"}

LineInvalid == env.argv = "ok" /\ env.file = "ok" /\ OutOfRange

=============================================================================
